---- MODULE Spec2Model ----
(***************************************************************************)
(* Model of App.py: the name unifier (unification_map, unify_name), the    *)
(* cached loader (load_and_preprocess_data), the grid densifier            *)
(* (create_all_dates_user_df) and the control flow of main.                 *)
(*                                                                         *)
(* Text is a sequence of one-character strings, so that lowercasing and    *)
(* substring search are computed character by character.                   *)
(***************************************************************************)
EXTENDS Integers, Sequences, FiniteSets, TLC

VARIABLES
    name,        \* unify_name: the argument
    unified,     \* unify_name(name)
    reunified,   \* unify_name(unify_name(name))
    upc,         \* how far the unifier has been applied to name
    file,        \* the CSV on disk: [exists, rows], rows of [Date, User, Influence]
    cache,       \* st.cache_data entry of load_and_preprocess_data: [filled, value]
    pc,          \* position of main in the current script run
    df,          \* main: the frame returned by load_and_preprocess_data
    df_full,     \* main: the frame returned by create_all_dates_user_df
    steps        \* what the current script run has executed so far

uvars == <<name, unified, reunified, upc>>
avars == <<file, cache, pc, df, df_full, steps>>
vars == <<name, unified, reunified, upc, file, cache, pc, df, df_full, steps>>

----------------------------------------------------------------------------
(* Characters and str.lower()                                              *)

UpperCase ==
    <<"A","B","C","D","E","F","G","H","I","J","K","L","M","N","O","P","Q","R","S","T","U","V","W","X","Y","Z">>

LowerCase ==
    <<"a","b","c","d","e","f","g","h","i","j","k","l","m","n","o","p","q","r","s","t","u","v","w","x","y","z">>

\* str.lower() on one character: A-Z go to a-z, everything else is kept.
LowerChar(c) ==
    IF \E i \in 1..Len(UpperCase) : UpperCase[i] = c
    THEN LowerCase[CHOOSE i \in 1..Len(UpperCase) : UpperCase[i] = c]
    ELSE c

\* name.lower()
Lower(s) == [i \in 1..Len(s) |-> LowerChar(s[i])]

\* Python's  pattern in s  on strings: pattern occurs as a contiguous run.
Contains(pattern, s) ==
    \E i \in 1..(Len(s) - Len(pattern) + 1) :
        SubSeq(s, i, i + Len(pattern) - 1) = pattern

----------------------------------------------------------------------------
(* 1. Name unification                                                     *)

\* The rule table with one display name that contains the pattern of an
\* earlier rule ("long").
unification_map_retrigger ==
    <<
       [patterns |-> <<<<"s","u","l","l","i","v","a","n">>>>,
        unified_display |-> <<"S","u","l","l","i","v","a","n">>],
       [patterns |-> <<<<"d","e","b">>>>,
        unified_display |-> <<"D","e","b">>],
       [patterns |-> <<<<"d","i","a","n","a">>>>,
        unified_display |-> <<"D","i","a","n","a">>],
       [patterns |-> <<<<"k","y","o">>>>,
        unified_display |-> <<"K","y","o">>],
       [patterns |-> <<<<"f","m","r"," ","p","r","e","s","i","d","e","n","t">>, <<"f","m","r","_","p","r","e","s","i","d","e","n","t">>>>,
        unified_display |-> <<"F","m","r"," ","P","r","e","s","i","d","e","n","t">>],
       [patterns |-> <<<<"p","l","u","r","i","b","u","s">>>>,
        unified_display |-> <<"P","l","u","r","i","b","u","s">>],
       [patterns |-> <<<<"a","i","s","l","i","n","n">>>>,
        unified_display |-> <<"A","i","s","l","i","n","n">>],
       [patterns |-> <<<<"k","a","y","l","a">>>>,
        unified_display |-> <<"K","a","y","l","a">>],
       [patterns |-> <<<<"l","o","n","g">>>>,
        unified_display |-> <<"L","o","n","g">>],
       [patterns |-> <<<<"j","a","m","e","s"," ","h","e","r","s","e","y">>, <<"j","a","m","e","s","_","h","e","r","e","s","y">>>>,
        unified_display |-> <<"J","a","m","e","s"," ","H","e","r","s","e","y">>],
       [patterns |-> <<<<"k","e","a","r","s","l","e","y">>>>,
        unified_display |-> <<"K","e","a","r","s","l","e","y">>],
       [patterns |-> <<<<"z","i","m","m","e","r","m","a","n">>>>,
        unified_display |-> <<"Z","i","m","m","e","r","m","a","n">>],
       [patterns |-> <<<<"t","o","w","a","r","d">>>>,
        unified_display |-> <<"T","o","w","a","r","d">>],
       [patterns |-> <<<<"n","o","r","d">>>>,
        unified_display |-> <<"N","o","r","d">>],
       [patterns |-> <<<<"m","o","l","h","o","j">>>>,
        unified_display |-> <<"M","o","l","h","o","j">>],
       [patterns |-> <<<<"p","o","s","t","i","n","g">>>>,
        unified_display |-> <<"P","o","s","t","i","n","g">>],
       [patterns |-> <<<<"i","r","o","n"," ","s","m","i","t","h">>>>,
        unified_display |-> <<"I","r","o","n"," ","S","m","i","t","h">>],
       [patterns |-> <<<<"p","i","c","k","l","e"," ","h","e","r","s","e","y">>>>,
        unified_display |-> <<"P","i","c","k","l","e"," ","H","e","r","s","e","y">>],
       [patterns |-> <<<<"d","u","c","k","y">>>>,
        unified_display |-> <<"D","u","c","k","y">>],
       [patterns |-> <<<<"m","a","r","k","s">>>>,
        unified_display |-> <<"M","a","r","k","s"," ","L","o","n","g">>],
       [patterns |-> <<<<"h","u","l","l">>>>,
        unified_display |-> <<"H","u","l","l">>],
       [patterns |-> <<<<"m","c","c","a","r","t","h","y">>>>,
        unified_display |-> <<"M","c","C","a","r","t","h","y">>],
       [patterns |-> <<<<"l","o","z">>>>,
        unified_display |-> <<"L","o","z">>],
       [patterns |-> <<<<"h","o","f","f","m","a","n">>>>,
        unified_display |-> <<"H","o","f","f","m","a","n">>],
       [patterns |-> <<<<"b","l","o","o","d","s","h","e","d">>>>,
        unified_display |-> <<"B","l","o","o","d","s","h","e","d">>],
       [patterns |-> <<<<"m","i","l","l","e","r">>>>,
        unified_display |-> <<"M","i","l","l","e","r">>],
       [patterns |-> <<<<"w","a","t","l","u","h","u","m">>>>,
        unified_display |-> <<"W","a","t","l","u","h","u","m">>],
       [patterns |-> <<<<"d","e","r","e","k">>>>,
        unified_display |-> <<"D","e","r","e","k">>]
    >>

unification_map ==
    <<
       [patterns |-> <<<<"s","u","l","l","i","v","a","n">>>>,
        unified_display |-> <<"S","u","l","l","i","v","a","n">>],
       [patterns |-> <<<<"d","e","b">>>>,
        unified_display |-> <<"D","e","b">>],
       [patterns |-> <<<<"d","i","a","n","a">>>>,
        unified_display |-> <<"D","i","a","n","a">>],
       [patterns |-> <<<<"k","y","o">>>>,
        unified_display |-> <<"K","y","o">>],
       [patterns |-> <<<<"f","m","r"," ","p","r","e","s","i","d","e","n","t">>, <<"f","m","r","_","p","r","e","s","i","d","e","n","t">>>>,
        unified_display |-> <<"F","m","r"," ","P","r","e","s","i","d","e","n","t">>],
       [patterns |-> <<<<"p","l","u","r","i","b","u","s">>>>,
        unified_display |-> <<"P","l","u","r","i","b","u","s">>],
       [patterns |-> <<<<"a","i","s","l","i","n","n">>>>,
        unified_display |-> <<"A","i","s","l","i","n","n">>],
       [patterns |-> <<<<"k","a","y","l","a">>>>,
        unified_display |-> <<"K","a","y","l","a">>],
       [patterns |-> <<<<"l","o","n","g">>>>,
        unified_display |-> <<"L","o","n","g">>],
       [patterns |-> <<<<"j","a","m","e","s"," ","h","e","r","s","e","y">>, <<"j","a","m","e","s","_","h","e","r","e","s","y">>>>,
        unified_display |-> <<"J","a","m","e","s"," ","H","e","r","s","e","y">>],
       [patterns |-> <<<<"k","e","a","r","s","l","e","y">>>>,
        unified_display |-> <<"K","e","a","r","s","l","e","y">>],
       [patterns |-> <<<<"z","i","m","m","e","r","m","a","n">>>>,
        unified_display |-> <<"Z","i","m","m","e","r","m","a","n">>],
       [patterns |-> <<<<"t","o","w","a","r","d">>>>,
        unified_display |-> <<"T","o","w","a","r","d">>],
       [patterns |-> <<<<"n","o","r","d">>>>,
        unified_display |-> <<"N","o","r","d">>],
       [patterns |-> <<<<"m","o","l","h","o","j">>>>,
        unified_display |-> <<"M","o","l","h","o","j">>],
       [patterns |-> <<<<"p","o","s","t","i","n","g">>>>,
        unified_display |-> <<"P","o","s","t","i","n","g">>],
       [patterns |-> <<<<"i","r","o","n"," ","s","m","i","t","h">>>>,
        unified_display |-> <<"I","r","o","n"," ","S","m","i","t","h">>],
       [patterns |-> <<<<"p","i","c","k","l","e"," ","h","e","r","s","e","y">>>>,
        unified_display |-> <<"P","i","c","k","l","e"," ","H","e","r","s","e","y">>],
       [patterns |-> <<<<"d","u","c","k","y">>>>,
        unified_display |-> <<"D","u","c","k","y">>],
       [patterns |-> <<<<"m","a","r","k","s">>>>,
        unified_display |-> <<"M","a","r","k","s">>],
       [patterns |-> <<<<"h","u","l","l">>>>,
        unified_display |-> <<"H","u","l","l">>],
       [patterns |-> <<<<"m","c","c","a","r","t","h","y">>>>,
        unified_display |-> <<"M","c","C","a","r","t","h","y">>],
       [patterns |-> <<<<"l","o","z">>>>,
        unified_display |-> <<"L","o","z">>],
       [patterns |-> <<<<"h","o","f","f","m","a","n">>>>,
        unified_display |-> <<"H","o","f","f","m","a","n">>],
       [patterns |-> <<<<"b","l","o","o","d","s","h","e","d">>>>,
        unified_display |-> <<"B","l","o","o","d","s","h","e","d">>],
       [patterns |-> <<<<"m","i","l","l","e","r">>>>,
        unified_display |-> <<"M","i","l","l","e","r">>],
       [patterns |-> <<<<"w","a","t","l","u","h","u","m">>>>,
        unified_display |-> <<"W","a","t","l","u","h","u","m">>],
       [patterns |-> <<<<"d","e","r","e","k">>>>,
        unified_display |-> <<"D","e","r","e","k">>]
    >>

\* The literal of the special skip.
HullsWife == <<"h","u","l","l","'","s"," ","w","i","f","e">>

\* for pattern in patterns: if pattern.lower() in name_lower
RECURSIVE ScanPatterns(_, _, _)
ScanPatterns(patterns, j, name_lower) ==
    IF j > Len(patterns) THEN FALSE
    ELSE IF Contains(Lower(patterns[j]), name_lower) THEN TRUE
    ELSE ScanPatterns(patterns, j + 1, name_lower)

\* for patterns, unified_display in unification_map: ... return unified_display
\* falling through to  return name
RECURSIVE ScanRules(_, _, _)
ScanRules(i, nm, name_lower) ==
    IF i > Len(unification_map) THEN nm
    ELSE IF ScanPatterns(unification_map[i].patterns, 1, name_lower)
         THEN unification_map[i].unified_display
         ELSE ScanRules(i + 1, nm, name_lower)

\* Variant without the special skip for "hull's wife".
unify_name_noskip(nm) == ScanRules(1, nm, Lower(nm))

\* Variant in which the last matching rule wins instead of the first.
RECURSIVE ScanRulesBackwards(_, _, _)
ScanRulesBackwards(i, nm, name_lower) ==
    IF i < 1 THEN nm
    ELSE IF ScanPatterns(unification_map[i].patterns, 1, name_lower)
         THEN unification_map[i].unified_display
         ELSE ScanRulesBackwards(i - 1, nm, name_lower)

unify_name_lastmatch(nm) ==
    LET name_lower == Lower(nm)
    IN  IF Contains(HullsWife, name_lower) THEN nm
        ELSE ScanRulesBackwards(Len(unification_map), nm, name_lower)

unify_name(nm) ==
    LET name_lower == Lower(nm)
    IN  IF Contains(HullsWife, name_lower) THEN nm
        ELSE ScanRules(1, nm, name_lower)

----------------------------------------------------------------------------
(* Inputs of the unifier: names built from a few fragments                  *)

MaxFrags == 3

Fragments ==
    { <<"H","u","l","l">>,
      <<"h","U","L","L">>,
      <<"'","s"," ","w","i","f","e">>,
      <<"'","S"," ","W","I","F","E">>,
      <<" ">>,
      <<"D","e","b">>,
      <<"L","O","N","G">>,
      <<"s","u","l","l","i","v","a","n">>,
      <<"J","a","n","e">>,
      <<"M","a","r","k","s">>,
      <<"j","a","m","e","s","_","h","e","r","e","s","y">> }

RECURSIVE NamesOf(_)
NamesOf(n) ==
    IF n = 0 THEN { <<>> }
    ELSE LET shorter == NamesOf(n - 1)
         IN  shorter \cup { s \o f : s \in shorter, f \in Fragments }

Names == NamesOf(MaxFrags)

----------------------------------------------------------------------------
(* The unifier applied once and twice to a name                             *)

\* The dashboard before anything has run: no file read, nothing cached.
AppIdle ==
    /\ file = [exists |-> FALSE, rows |-> <<>>]
    /\ cache = [filled |-> FALSE, value |-> <<>>]
    /\ pc = "start"
    /\ df = <<>>
    /\ df_full = <<>>
    /\ steps = {}

InitUnify ==
    /\ name \in Names
    /\ unified = <<>>
    /\ reunified = <<>>
    /\ upc = "input"
    /\ AppIdle

Unify ==
    /\ upc = "input"
    /\ unified' = unify_name(name)
    /\ upc' = "unified"
    /\ UNCHANGED <<name, reunified>>
    /\ UNCHANGED avars

UnifyAgain ==
    /\ upc = "unified"
    /\ reunified' = unify_name(unified)
    /\ upc' = "reunified"
    /\ UNCHANGED <<name, unified>>
    /\ UNCHANGED avars

NextUnify == Unify \/ UnifyAgain

SpecUnify == InitUnify /\ [][NextUnify]_vars

----------------------------------------------------------------------------
(* 2. Data load and preprocessing                                          *)

\* Raw "User" cells of the CSV.  An empty cell is read by read_csv as NaN.
SullivanJr == <<"S","u","l","l","i","v","a","n"," ","J","r",".">>
sullivan == <<"s","u","l","l","i","v","a","n">>
DebH == <<"D","e","b"," ","H",".">>
HullsWifeJane == <<"H","u","l","l","'","s"," ","w","i","f","e"," ","J","a","n","e">>
EmptyCell == <<>>

RawUsers == { SullivanJr, sullivan, DebH, HullsWifeJane }

MaxRows == 3
Dates == 1..3
Influences == 1..2

Smallest(S) == CHOOSE x \in S : \A y \in S : x <= y
Largest(S) == CHOOSE x \in S : \A y \in S : x >= y

GoodRows == [Date : Dates, User : RawUsers, Influence : Influences]
BadRows == [Date : {1}, User : {EmptyCell}, Influence : {1}]

\* Code points, as far as the order of the names in the model needs them.
Alphabet ==
    <<" ","'",".">> \o UpperCase \o <<"_">> \o LowerCase

CharCode ==
    [c \in { Alphabet[i] : i \in 1..Len(Alphabet) } |->
        CHOOSE i \in 1..Len(Alphabet) : Alphabet[i] = c]

\* Python's  a < b  on strings.
RECURSIVE TextLess(_, _)
TextLess(a, b) ==
    IF b = <<>> THEN FALSE
    ELSE IF a = <<>> THEN TRUE
    ELSE IF a[1] = b[1] THEN TextLess(Tail(a), Tail(b))
    ELSE CharCode[a[1]] < CharCode[b[1]]

\* df["User"].apply(unify_name): the unifier on each raw cell of the model.
UnifiedUserOf == [u \in RawUsers |-> unify_name(u)]

\* pd.read_csv raises when the file is missing; unify_name raises on a NaN
\* cell (a float has no lower()).
LoadRaises(f) ==
    \/ ~f.exists
    \/ \E i \in DOMAIN f.rows : f.rows[i].User = EmptyCell

ApplyUnify(rows) ==
    [i \in DOMAIN rows |->
        [Date |-> rows[i].Date,
         UnifiedUser |-> UnifiedUserOf[rows[i].User],
         Influence |-> rows[i].Influence]]

RECURSIVE SumWhere(_, _, _)
SumWhere(rows, d, u) ==
    IF rows = <<>> THEN 0
    ELSE (IF rows[1].Date = d /\ rows[1].UnifiedUser = u
          THEN rows[1].Influence ELSE 0) + SumWhere(Tail(rows), d, u)

\* groupby sorts the group keys: by Date, then by UnifiedUser.
KeyLess(k1, k2) ==
    \/ k1[1] < k2[1]
    \/ k1[1] = k2[1] /\ TextLess(k1[2], k2[2])

RECURSIVE SortKeys(_)
SortKeys(keys) ==
    IF keys = {} THEN <<>>
    ELSE LET least == CHOOSE k \in keys : \A o \in keys \ {k} : KeyLess(k, o)
         IN  <<least>> \o SortKeys(keys \ {least})

\* Variant that keeps the first value of each group instead of the sum.
GroupByFirst(rows) ==
    LET keys == SortKeys({ <<rows[i].Date, rows[i].UnifiedUser>> : i \in DOMAIN rows })
    IN  [n \in DOMAIN keys |->
            [Date |-> keys[n][1],
             UnifiedUser |-> keys[n][2],
             Influence |->
                rows[CHOOSE i \in DOMAIN rows :
                        /\ <<rows[i].Date, rows[i].UnifiedUser>> = keys[n]
                        /\ \A k \in 1..(i - 1) :
                              <<rows[k].Date, rows[k].UnifiedUser>> # keys[n]].Influence]]

\* df.groupby(["Date", "UnifiedUser"], as_index=False)["Political Influence"].sum()
GroupBySum(rows) ==
    LET keys == SortKeys({ <<rows[i].Date, rows[i].UnifiedUser>> : i \in DOMAIN rows })
    IN  [n \in DOMAIN keys |->
            [Date |-> keys[n][1],
             UnifiedUser |-> keys[n][2],
             Influence |-> SumWhere(rows, keys[n][1], keys[n][2])]]

\* All orders of the rows of a group.
RECURSIVE Orders(_)
Orders(group) ==
    IF group = <<>> THEN { <<>> }
    ELSE UNION { { <<group[i]>> \o rest :
                     rest \in Orders(SubSeq(group, 1, i - 1)
                                     \o SubSeq(group, i + 1, Len(group))) } :
                 i \in DOMAIN group }

\* Variant that sorts ascending.
SortValuesAscending(group) ==
    { s \in Orders(group) :
        \A i \in 1..(Len(s) - 1) : s[i].Influence <= s[i + 1].Influence }

\* group.sort_values("Political Influence", ascending=False) with the default
\* kind="quicksort", which is not a stable sort: rows of equal influence may
\* come out in any order.
SortValuesDescending(group) ==
    { s \in Orders(group) :
        \A i \in 1..(Len(s) - 1) : s[i].Influence >= s[i + 1].Influence }

\* Variant that numbers the sorted rows from 0.
RanksFromZero(sorted) ==
    [i \in DOMAIN sorted |->
        [Date |-> sorted[i].Date,
         UnifiedUser |-> sorted[i].UnifiedUser,
         Influence |-> sorted[i].Influence,
         Rank |-> i - 1]]

\* group["Rank"] = range(1, len(group) + 1)
AssignRanks(sorted) ==
    [i \in DOMAIN sorted |->
        [Date |-> sorted[i].Date,
         UnifiedUser |-> sorted[i].UnifiedUser,
         Influence |-> sorted[i].Influence,
         Rank |-> i]]

\* compute_daily_ranks: the frames it can return for one date group.
compute_daily_ranks(group) ==
    { AssignRanks(s) : s \in SortValuesDescending(group) }

OnDate(frame, d) == SelectSeq(frame, LAMBDA r : r.Date = d)

\* grouped.groupby("Date").apply(compute_daily_ranks).reset_index(drop=True):
\* the date groups in ascending date order, each ranked, concatenated.
RECURSIVE ApplyDailyRanks(_, _)
ApplyDailyRanks(grouped, d) ==
    IF \A i \in DOMAIN grouped : grouped[i].Date < d THEN { <<>> }
    ELSE LET group == OnDate(grouped, d)
             rest == ApplyDailyRanks(grouped, d + 1)
         IN  IF group = <<>> THEN rest
             ELSE { ranked \o tail : ranked \in compute_daily_ranks(group),
                                     tail \in rest }

\* load_and_preprocess_data on a readable file: the frames it can return.
load_and_preprocess_data(rows) ==
    ApplyDailyRanks(GroupBySum(ApplyUnify(rows)), Smallest(Dates))

----------------------------------------------------------------------------
(* create_all_dates_user_df                                                *)

\* A cell of a merged frame is {} for NaN and {v} for the value v.
NaN == {}

\* Variant that takes only the dates that occur in the data.
RECURSIVE DatesPresent(_)
DatesPresent(frame) ==
    LET present == { frame[i].Date : i \in DOMAIN frame }
    IN  IF present = {} THEN <<>>
        ELSE <<Smallest(present)>>
                \o DatesPresent(SelectSeq(frame, LAMBDA r : r.Date # Smallest(present)))

\* pd.date_range(start=df["Date"].min(), end=df["Date"].max(), freq="D")
date_range(frame) ==
    LET present == { frame[i].Date : i \in DOMAIN frame }
        first == Smallest(present)
        last == Largest(present)
    IN  [n \in 1..(last - first + 1) |-> first + n - 1]

\* df["UnifiedUser"].unique(): in order of first appearance.
RECURSIVE Unique(_)
Unique(frame) ==
    IF frame = <<>> THEN <<>>
    ELSE LET before == Unique(SubSeq(frame, 1, Len(frame) - 1))
             u == frame[Len(frame)].UnifiedUser
         IN  IF \E i \in DOMAIN before : before[i] = u THEN before
             ELSE Append(before, u)

\* pd.merge(full_df, df, how="left", on=["Date", "UnifiedUser"]) for one row
\* of the full index: one output row per matching row of df, or one row of
\* NaN cells when there is none.
MergeLeft(d, u, frame) ==
    LET found == SelectSeq(frame, LAMBDA r : r.Date = d /\ r.UnifiedUser = u)
    IN  IF found = <<>>
        THEN << [Date |-> d, UnifiedUser |-> u, Influence |-> NaN, Rank |-> NaN] >>
        ELSE [i \in DOMAIN found |->
                [Date |-> d, UnifiedUser |-> u,
                 Influence |-> {found[i].Influence}, Rank |-> {found[i].Rank}]]

RECURSIVE MergeUsers(_, _, _, _)
MergeUsers(d, users, n, frame) ==
    IF n > Len(users) THEN <<>>
    ELSE MergeLeft(d, users[n], frame) \o MergeUsers(d, users, n + 1, frame)

\* Variant that gives missing rows one rank past the bottom.
fill_missing_past_bottom(group) ==
    LET ranks == UNION { group[i].Rank : i \in DOMAIN group }
        max_rank == IF ranks = {} THEN NaN ELSE {Largest(ranks) + 1}
    IN  [i \in DOMAIN group |->
            [Date |-> group[i].Date,
             UnifiedUser |-> group[i].UnifiedUser,
             Influence |-> IF group[i].Influence = NaN THEN {0} ELSE group[i].Influence,
             Rank |-> IF group[i].Rank = NaN THEN max_rank ELSE group[i].Rank]]

\* fill_missing: max(skipna=True) of an all-NaN column is NaN, and fillna(NaN)
\* leaves the column as it is.
fill_missing(group) ==
    LET ranks == UNION { group[i].Rank : i \in DOMAIN group }
        max_rank == IF ranks = {} THEN NaN ELSE {Largest(ranks)}
    IN  [i \in DOMAIN group |->
            [Date |-> group[i].Date,
             UnifiedUser |-> group[i].UnifiedUser,
             Influence |-> IF group[i].Influence = NaN THEN {0} ELSE group[i].Influence,
             Rank |-> IF group[i].Rank = NaN THEN max_rank ELSE group[i].Rank]]

RECURSIVE FillPerDate(_, _, _, _)
FillPerDate(all_dates, n, all_users, frame) ==
    IF n > Len(all_dates) THEN <<>>
    ELSE fill_missing(MergeUsers(all_dates[n], all_users, 1, frame))
            \o FillPerDate(all_dates, n + 1, all_users, frame)

\* create_all_dates_user_df on a frame with at least one row.
create_all_dates_user_df(frame) ==
    FillPerDate(date_range(frame), 1, Unique(frame), frame)

----------------------------------------------------------------------------
(* 3. main: one script run per user interaction                            *)

UnifierIdle ==
    /\ name = <<>>
    /\ unified = <<>>
    /\ reunified = <<>>
    /\ upc = "input"

\* Variant without the cache: the function body runs on every call.
LoadRecompute ==
    /\ pc = "start"
    /\ ~LoadRaises(file)
    /\ \E result \in load_and_preprocess_data(file.rows) :
          /\ df' = result
          /\ cache' = [filled |-> TRUE, value |-> result]
    /\ pc' = "loaded"
    /\ steps' = steps \cup {"load"}
    /\ UNCHANGED <<file, df_full>>
    /\ UNCHANGED uvars

\* load_and_preprocess_data(local_csv_file) when st.cache_data holds no entry
\* for the path: the function body runs and its result is stored.
LoadCompute ==
    /\ pc = "start"
    /\ ~cache.filled
    /\ ~LoadRaises(file)
    /\ \E result \in load_and_preprocess_data(file.rows) :
          /\ df' = result
          /\ cache' = [filled |-> TRUE, value |-> result]
    /\ pc' = "loaded"
    /\ steps' = steps \cup {"load"}
    /\ UNCHANGED <<file, df_full>>
    /\ UNCHANGED uvars

\* The same call when st.cache_data holds an entry for the path: the entry
\* is returned and the function body does not run.  The key is the argument,
\* the path; the file is not looked at.
LoadCached ==
    /\ pc = "start"
    /\ cache.filled
    /\ df' = cache.value
    /\ pc' = "loaded"
    /\ steps' = steps \cup {"load"}
    /\ UNCHANGED <<file, cache, df_full>>
    /\ UNCHANGED uvars

\* The function body raises; nothing is stored and control enters the
\* except clause of main.
LoadFails ==
    /\ pc = "start"
    /\ ~cache.filled
    /\ LoadRaises(file)
    /\ pc' = "except"
    /\ steps' = steps \cup {"load"}
    /\ UNCHANGED <<file, cache, df, df_full>>
    /\ UNCHANGED uvars

\* Variant of the except clause without its return.
ShowErrorAndGoOn ==
    /\ pc = "except"
    /\ steps' = steps \cup {"error"}
    /\ pc' = "loaded"
    /\ UNCHANGED <<file, cache, df, df_full>>
    /\ UNCHANGED uvars

\* except Exception as e: st.error(...); return
ShowError ==
    /\ pc = "except"
    /\ steps' = steps \cup {"error"}
    /\ pc' = "done"
    /\ UNCHANGED <<file, cache, df, df_full>>
    /\ UNCHANGED uvars

\* df_full = create_all_dates_user_df(df)
Densify ==
    /\ pc = "loaded"
    /\ df # <<>>
    /\ df_full' = create_all_dates_user_df(df)
    /\ pc' = "dense"
    /\ steps' = steps \cup {"densify"}
    /\ UNCHANGED <<file, cache, df>>
    /\ UNCHANGED uvars

\* On a frame without rows the minimum date is NaT and pd.date_range raises;
\* main does not catch it and the script run ends there.
DensifyRaises ==
    /\ pc = "loaded"
    /\ df = <<>>
    /\ pc' = "crashed"
    /\ steps' = steps \cup {"densify"}
    /\ UNCHANGED <<file, cache, df, df_full>>
    /\ UNCHANGED uvars

\* The rows of df_full kept by the sidebar choices.
Filtered(selected_users, lo, hi) ==
    SelectSeq(df_full, LAMBDA r : /\ r.Date >= lo /\ r.Date <= hi
                                  /\ r.UnifiedUser \in selected_users)

InInfluenceRange(frame, a, b) ==
    SelectSeq(frame, LAMBDA r : \A v \in r.Influence : v >= a /\ v <= b)

\* The rest of main: sidebar controls, filters, charts and the download.
Render ==
    /\ pc = "dense"
    /\ \E measure_to_show \in {"Political Influence", "Rank"},
          selected_users \in SUBSET { df_full[i].UnifiedUser : i \in DOMAIN df_full },
          lo \in { df_full[i].Date : i \in DOMAIN df_full },
          hi \in { df_full[i].Date : i \in DOMAIN df_full } :
          /\ lo <= hi
          /\ LET by_date_user == Filtered(selected_users, lo, hi)
                 values == UNION { by_date_user[i].Influence : i \in DOMAIN by_date_user }
             IN  \E a \in values \cup {0}, b \in values \cup {0} :
                    LET df_filtered ==
                            IF measure_to_show = "Political Influence"
                               /\ by_date_user # <<>>
                            THEN InInfluenceRange(by_date_user, a, b)
                            ELSE by_date_user
                    IN  steps' =
                            IF df_filtered = <<>>
                            THEN steps \cup {"filter", "warning"}
                            ELSE IF measure_to_show = "Political Influence"
                            THEN steps \cup {"filter", "chart", "top10", "download"}
                            ELSE steps \cup {"filter", "chart", "download"}
    /\ pc' = "done"
    /\ UNCHANGED <<file, cache, df, df_full>>
    /\ UNCHANGED uvars

\* The next interaction: Streamlit runs the script again from the top; only
\* the cache outlives the run.
Rerun ==
    /\ pc \in {"done", "crashed"}
    /\ pc' = "start"
    /\ df' = <<>>
    /\ df_full' = <<>>
    /\ steps' = {}
    /\ UNCHANGED <<file, cache>>
    /\ UNCHANGED uvars

\* The environment, between script runs: the CSV appears, or gains a row.
MaxFileRows == 2

CreateFile ==
    /\ pc = "start"
    /\ ~file.exists
    /\ file' = [exists |-> TRUE, rows |-> <<>>]
    /\ UNCHANGED <<cache, pc, df, df_full, steps>>
    /\ UNCHANGED uvars

AppendRow ==
    /\ pc = "start"
    /\ file.exists
    /\ Len(file.rows) < MaxFileRows
    /\ \E row \in GoodRows \cup BadRows :
          file' = [file EXCEPT !.rows = Append(@, row)]
    /\ UNCHANGED <<cache, pc, df, df_full, steps>>
    /\ UNCHANGED uvars

Init ==
    /\ UnifierIdle
    /\ AppIdle

Next ==
    \/ CreateFile
    \/ AppendRow
    \/ LoadCompute
    \/ LoadCached
    \/ LoadFails
    \/ ShowError
    \/ Densify
    \/ DensifyRaises
    \/ Render
    \/ Rerun

Spec == Init /\ [][Next]_vars

\* One script run, from an empty cache, on each well-formed file of the model.
InitPipeline ==
    /\ UnifierIdle
    /\ \E n \in 1..MaxRows :
          \E rows \in [1..n -> GoodRows] :
              file = [exists |-> TRUE, rows |-> rows]
    /\ cache = [filled |-> FALSE, value |-> <<>>]
    /\ pc = "start"
    /\ df = <<>>
    /\ df_full = <<>>
    /\ steps = {}

NextPipeline == LoadCompute \/ Densify

SpecPipeline == InitPipeline /\ [][NextPipeline]_vars

----------------------------------------------------------------------------
(* Properties of the unifier                                                *)

\* lit occurs in s when letter case is ignored (lit is lowercase).
OccursAnyCase(lit, s) ==
    \E i \in 1..(Len(s) - Len(lit) + 1) :
        \A k \in 1..Len(lit) :
            \/ s[i + k - 1] = lit[k]
            \/ \E a \in 1..Len(LowerCase) :
                  LowerCase[a] = lit[k] /\ UpperCase[a] = s[i + k - 1]

Hull == <<"H","u","l","l">>
Deb == <<"D","e","b">>

\* C1: a name that contains "hull's wife" in any letter case is returned
\* character for character; no rule is applied, so the result is never "Hull".
C1_HullsWifeUnchanged ==
    (upc # "input" /\ OccursAnyCase(HullsWife, name))
        => (unified = name /\ unified # Hull)

C1_Witness ==
    /\ upc = "unified"
    /\ OccursAnyCase(HullsWife, name)
    /\ ~Contains(HullsWife, name)
    /\ Contains(<<"D","e","b">>, name)
    /\ unified = name

\* The rules that have a pattern occurring in the lowercased name.
MatchingRules(nm) ==
    LET lowered == Lower(nm)
    IN  { i \in DOMAIN unification_map :
            \E j \in DOMAIN unification_map[i].patterns :
                Contains(unification_map[i].patterns[j], lowered) }

FirstMatch(nm) ==
    LET matching == MatchingRules(nm)
    IN  IF matching = {} THEN nm
        ELSE unification_map[CHOOSE i \in matching :
                                \A k \in matching : i <= k].unified_display

\* C2: without "hull's wife" in it, a name maps to the canonical name of the
\* earliest listed rule that has a pattern in the lowercased name, and to
\* itself when no rule matches; with "deb" and "long" both present (and no
\* earlier rule matching) the result is "Deb".
C2_FirstMatchingRuleWins ==
    (upc # "input" /\ ~OccursAnyCase(HullsWife, name))
        => /\ unified = FirstMatch(name)
           /\ (/\ OccursAnyCase(<<"d","e","b">>, name)
               /\ OccursAnyCase(<<"l","o","n","g">>, name)
               /\ ~OccursAnyCase(<<"s","u","l","l","i","v","a","n">>, name))
                  => unified = Deb

C2_Witness ==
    /\ upc = "unified"
    /\ ~OccursAnyCase(HullsWife, name)
    /\ Cardinality(MatchingRules(name)) >= 2
    /\ OccursAnyCase(<<"l","o","n","g">>, name)
    /\ unified = Deb

\* Every canonical name of the table maps to itself: lowercased, it contains
\* no pattern of a rule listed before its own.
CanonicalNamesFixed ==
    \A i \in DOMAIN unification_map :
        /\ unify_name(unification_map[i].unified_display)
              = unification_map[i].unified_display
        /\ \A k \in MatchingRules(unification_map[i].unified_display) : k >= i

\* C8: applying the unifier to its own result changes nothing, and every
\* canonical name of the table maps to itself.
C8_Idempotent ==
    /\ upc = "reunified" => reunified = unified
    /\ CanonicalNamesFixed

C8_Witness ==
    /\ upc = "reunified"
    /\ unified # name
    /\ unified = <<"M","a","r","k","s">>
    /\ reunified = unified

----------------------------------------------------------------------------
(* Properties of the loader and the densifier                               *)

\* main holds the loader's result and has not gone on yet.
Loaded == pc = "loaded"

RECURSIVE SumInfluence(_)
SumInfluence(rows) ==
    IF rows = <<>> THEN 0 ELSE rows[1].Influence + SumInfluence(Tail(rows))

\* The canonical users that have a raw record on date d.
CanonicalUsersOn(d) ==
    { UnifiedUserOf[file.rows[i].User] :
        i \in { k \in DOMAIN file.rows : file.rows[k].Date = d } }

\* The (date, canonical user) pairs of the raw records.
RawPairs ==
    { <<file.rows[i].Date, UnifiedUserOf[file.rows[i].User]>> : i \in DOMAIN file.rows }

\* C3: in the loader's output the ranks of each date are a permutation of
\* 1..K, K the number of distinct canonical users with a raw record that day.
C3_RanksArePermutation ==
    Loaded =>
        \A d \in Dates :
            LET rows == OnDate(df, d)
                K == Cardinality(CanonicalUsersOn(d))
            IN  /\ Len(rows) = K
                /\ { rows[i].Rank : i \in DOMAIN rows } = 1..K

C3_Witness ==
    /\ pc = "loaded"
    /\ \E d \in Dates : Cardinality(CanonicalUsersOn(d)) = 3
    /\ \E d \in Dates : Cardinality(CanonicalUsersOn(d)) = 0

\* The ranker's input: the aggregator's output for the file.
RankerInput == GroupBySum(ApplyUnify(file.rows))

PositionIn(frame, r) ==
    CHOOSE i \in DOMAIN frame :
        frame[i].Date = r.Date /\ frame[i].UnifiedUser = r.UnifiedUser

\* Within a date, strictly greater influence has the strictly smaller rank.
GreaterInfluenceRanksFirst ==
    \A i, j \in DOMAIN df :
        (df[i].Date = df[j].Date /\ df[i].Influence > df[j].Influence)
            => df[i].Rank < df[j].Rank

\* Within a date, rows of equal influence keep the order of the ranker's input.
TiesKeepInputOrder ==
    \A i, j \in DOMAIN df :
        (/\ df[i].Date = df[j].Date
         /\ df[i].Influence = df[j].Influence
         /\ PositionIn(RankerInput, df[i]) < PositionIn(RankerInput, df[j]))
            => df[i].Rank < df[j].Rank

C5_InfluenceConserved ==
    Loaded =>
        /\ Len(df) = Cardinality(RawPairs)
        /\ { <<df[i].Date, df[i].UnifiedUser>> : i \in DOMAIN df } = RawPairs
        /\ \A d \in Dates :
              SumInfluence(OnDate(df, d)) = SumInfluence(OnDate(file.rows, d))

C5_Witness ==
    /\ pc = "loaded"
    /\ Len(df) < Len(file.rows)
    /\ \E i \in DOMAIN df : df[i].Influence = 4
    /\ \E i, j \in DOMAIN file.rows :
          /\ file.rows[i].User = SullivanJr
          /\ file.rows[j].User = sullivan
          /\ file.rows[i].Date = file.rows[j].Date

DaysOf(frame) ==
    Smallest({ frame[i].Date : i \in DOMAIN frame })
        .. Largest({ frame[i].Date : i \in DOMAIN frame })

UsersOf(frame) == { frame[i].UnifiedUser : i \in DOMAIN frame }

\* The rows of the dense grid for one (date, user) pair.
GridRows(d, u) ==
    { i \in DOMAIN df_full : df_full[i].Date = d /\ df_full[i].UnifiedUser = u }

\* C6: the dense grid has exactly one row for every day from the first to
\* the last date of the data and every canonical user of the data, and no
\* other row; days without any raw record are included.
C6_GridIsComplete ==
    pc = "dense" =>
        /\ \A d \in DaysOf(df), u \in UsersOf(df) : Cardinality(GridRows(d, u)) = 1
        /\ \A i \in DOMAIN df_full :
              df_full[i].Date \in DaysOf(df) /\ df_full[i].UnifiedUser \in UsersOf(df)

C6_Witness ==
    /\ pc = "dense"
    /\ Cardinality(UsersOf(df)) >= 2
    /\ \E d \in DaysOf(df) :
          /\ CanonicalUsersOn(d) = {}
          /\ \A u \in UsersOf(df) : Cardinality(GridRows(d, u)) = 1

\* C7: on a date with real rows, the grid row of a pair that has a real row
\* carries its influence and rank; the grid row of a pair without one has
\* influence 0 and the largest rank of the date's real rows, so the ranks of
\* the date stay within 1..K.
C7_BottomRankFill ==
    pc = "dense" =>
        \A d \in DaysOf(df), u \in UsersOf(df) :
            LET real == OnDate(df, d)
                own == SelectSeq(real, LAMBDA r : r.UnifiedUser = u)
            IN  real # <<>> =>
                  \A i \in GridRows(d, u) :
                      /\ own # <<>> =>
                            /\ df_full[i].Influence = {own[1].Influence}
                            /\ df_full[i].Rank = {own[1].Rank}
                      /\ own = <<>> =>
                            /\ df_full[i].Influence = {0}
                            /\ df_full[i].Rank =
                                  {Largest({ real[k].Rank : k \in DOMAIN real })}
                      /\ df_full[i].Rank \subseteq 1..Len(real)

C7_Witness ==
    /\ pc = "dense"
    /\ \E i \in DOMAIN df_full :
          /\ df_full[i].Influence = {0}
          /\ df_full[i].Rank = {2}
          /\ Len(OnDate(df, df_full[i].Date)) = 2

----------------------------------------------------------------------------
(* Properties of main                                                       *)

AfterLoad == {"densify", "filter", "warning", "chart", "top10", "download"}

\* C9: when the load fails, the except clause shows the error and the script
\* run ends: nothing after the load is executed in that run.
C9_LoadFailureAborts ==
    /\ [](("error" \in steps \/ pc = "except")
             => (steps \cap AfterLoad = {} /\ df_full = <<>>))
    /\ [][(pc = "start" /\ ~cache.filled /\ LoadRaises(file) /\ pc' # "start")
             => pc' = "except"]_vars
    /\ [][pc = "except" => (pc' = "done" /\ steps' = steps \cup {"error"})]_vars
    /\ [][(pc = "done" /\ "error" \in steps) => (pc' = "start" /\ steps' = {})]_vars

C9_Witness ==
    /\ pc = "done"
    /\ "error" \in steps
    /\ file.exists
    /\ LoadRaises(file)

\* C10 as stated: every load returns what preprocessing the current contents
\* of the file produces.
C10_LoadFollowsFile ==
    pc = "loaded" =>
        /\ ~LoadRaises(file)
        /\ df \in load_and_preprocess_data(file.rows)

\* C10 amended: the first successful load computes the frame from the file
\* and stores it; from then on the entry never changes and every load
\* returns it, whatever has happened to the file.
C10_CachedOnce ==
    /\ [][cache.filled
             => /\ cache' = cache
                /\ (pc = "start" /\ pc' # "start") => (pc' = "loaded" /\ df' = cache.value)]_vars
    /\ [][(~cache.filled /\ pc = "start" /\ pc' = "loaded")
             => /\ df' \in load_and_preprocess_data(file.rows)
                /\ cache' = [filled |-> TRUE, value |-> df']]_vars

C10_Witness ==
    /\ pc = "loaded"
    /\ cache.filled
    /\ df = cache.value
    /\ ~LoadRaises(file)
    /\ df \notin load_and_preprocess_data(file.rows)

====
